---- MODULE Spec2Model ----
(***************************************************************************)
(* Rule engine of the falling-block game in src/src/main.ts: the state     *)
(* record folded by updateState over the merged stream of key and timer    *)
(* actions (main.ts 533-539), with the shape draw of createTetrominos as   *)
(* the only other nondeterminism.                                          *)
(***************************************************************************)
EXTENDS Integers, Sequences, FiniteSets

(***************************************************************************)
(* Constants of the program.                                               *)
(***************************************************************************)
GRID_WIDTH == 10
GRID_HEIGHT == 20
X_SPAWN_POINT == GRID_WIDTH \div 2

(***************************************************************************)
(* Bounds of the exploration.                                              *)
(***************************************************************************)
\* number of freely chosen actions delivered after a scripted input prefix
MaxFree == 3
\* the same after the tower script, whose boards hold eleven pieces
MaxFreeTower == 2
\* number of timer ticks delivered in the timer-only specification
MaxTicks == 44

\* the unattended game: the spawns whose shape is drawn freely
MaxDrawn == 1

Cube(cx, cy) == [x |-> cx, y |-> cy]

MoveAction(mx, my) == [type |-> "Move", x |-> mx, y |-> my]
RotateAction == [type |-> "Rotate", x |-> 0, y |-> 0]
Restart == [type |-> "Restart", x |-> 0, y |-> 0]

\* the catalog; indices 1..7 stand for the source's 0..6
defaultTetrominos ==
  << [id |-> 1, cubes |-> <<Cube(0,0), Cube(0,-1), Cube(1,-1), Cube(2,-1)>>,
      color |-> "green", x |-> X_SPAWN_POINT, y |-> 0],
     [id |-> 1, cubes |-> <<Cube(0,0), Cube(0,-1), Cube(-1,-1), Cube(-2,-1)>>,
      color |-> "white", x |-> X_SPAWN_POINT, y |-> 0],
     [id |-> 1, cubes |-> <<Cube(0,0), Cube(1,0), Cube(1,-1), Cube(2,-1)>>,
      color |-> "red", x |-> X_SPAWN_POINT, y |-> 0],
     [id |-> 1, cubes |-> <<Cube(0,0), Cube(-1,0), Cube(-1,-1), Cube(-2,-1)>>,
      color |-> "pink", x |-> X_SPAWN_POINT, y |-> 0],
     [id |-> 1, cubes |-> <<Cube(0,0), Cube(0,-1), Cube(1,0), Cube(1,-1)>>,
      color |-> "blue", x |-> X_SPAWN_POINT, y |-> 0],
     [id |-> 1, cubes |-> <<Cube(0,0), Cube(1,0), Cube(2,0), Cube(3,0)>>,
      color |-> "yellow", x |-> X_SPAWN_POINT, y |-> 0],
     [id |-> 1, cubes |-> <<Cube(0,0), Cube(0,-1), Cube(1,-1), Cube(-1,-1)>>,
      color |-> "purple", x |-> X_SPAWN_POINT, y |-> 0] >>

\* the values Math.floor(Math.random() * length) can take, shifted by one
RandIndex == 1..Len(defaultTetrominos)

\* variant: the new piece takes the id it is given
createTetrominosSameId(nextId, randIndex) ==
  [defaultTetrominos[randIndex] EXCEPT !.id = nextId]

createTetrominos(nextId, randIndex) ==
  [defaultTetrominos[randIndex] EXCEPT !.id = nextId + 1]

initialGameBoard == << >>

\* initialState is evaluated once, when the module is loaded
makeInitialState(randIndex) ==
  [gameEnd |-> FALSE,
   gameBoard |-> initialGameBoard,
   currentTetrominos |-> createTetrominos(1, randIndex),
   score |-> 0,
   highScore |-> 0]

(***************************************************************************)
(* Geometry predicates.                                                    *)
(***************************************************************************)
RECURSIVE reduceLowest(_, _, _)
reduceLowest(tetromino, minCube, i) ==
  IF i > Len(tetromino.cubes) THEN minCube
  ELSE reduceLowest(tetromino,
         IF (tetromino.cubes[i].y + tetromino.y) > (tetromino.y + minCube.y)
         THEN tetromino.cubes[i] ELSE minCube,
         i + 1)

\* Array.reduce without a seed: starts from the first cube
lowestYCube(tetromino) == reduceLowest(tetromino, tetromino.cubes[1], 2)

\* variant: the floor test stops one row above the floor
isTouchingFloorEarly(tetromino) ==
  IF (lowestYCube(tetromino).y + tetromino.y) < GRID_HEIGHT - 1 THEN FALSE ELSE TRUE

\* variant: the floor test admits row GRID_HEIGHT
isTouchingFloorLate(tetromino) ==
  IF (lowestYCube(tetromino).y + tetromino.y) <= GRID_HEIGHT THEN FALSE ELSE TRUE

isTouchingFloor(tetromino) ==
  IF (lowestYCube(tetromino).y + tetromino.y) < GRID_HEIGHT THEN FALSE ELSE TRUE

\* variant: column 1 counts as inside for every movement
isInBorderOpenLeft(tetromino, movement) ==
  \A i \in 1..Len(tetromino.cubes) :
    LET cubeX == tetromino.x + tetromino.cubes[i].x IN
      \/ (cubeX >= 1 /\ cubeX < GRID_WIDTH)
      \/ (cubeX = GRID_WIDTH /\ movement.x = -1)

isInBorder(tetromino, movement) ==
  \A i \in 1..Len(tetromino.cubes) :
    LET cubeX == tetromino.x + tetromino.cubes[i].x IN
      \/ (cubeX > 1 /\ cubeX < GRID_WIDTH)
      \/ (cubeX = 1 /\ movement.x = 1)
      \/ (cubeX = GRID_WIDTH /\ movement.x = -1)

isColliding(s, movement, withMovement) ==
  LET xMovement == IF withMovement THEN movement.x ELSE 0
      yMovement == IF withMovement THEN movement.y ELSE 0
      stackingOffset == IF withMovement THEN 0 ELSE 1
  IN \E i \in 1..Len(s.currentTetrominos.cubes) :
       LET x == s.currentTetrominos.x + s.currentTetrominos.cubes[i].x + xMovement
           y == s.currentTetrominos.y + s.currentTetrominos.cubes[i].y + yMovement
       IN \E k \in 1..Len(s.gameBoard) :
            \E j \in 1..Len(s.gameBoard[k].cubes) :
              /\ (s.gameBoard[k].x + s.gameBoard[k].cubes[j].x) = x
              /\ (s.gameBoard[k].y + s.gameBoard[k].cubes[j].y) = y + stackingOffset

\* gameBoard.reduce((accumulator, tetromino) => accumulator + filter(...).length, 0)
RECURSIVE reduceRowCount(_, _, _)
reduceRowCount(gameBoard, rowIndex, k) ==
  IF k > Len(gameBoard) THEN 0
  ELSE Len(SelectSeq(gameBoard[k].cubes, LAMBDA cube : (gameBoard[k].y + cube.y) = rowIndex))
         + reduceRowCount(gameBoard, rowIndex, k + 1)

isRowFull(gameBoard, rowIndex) ==
  LET colCount == reduceRowCount(gameBoard, rowIndex, 1)
  IN colCount = GRID_WIDTH

RECURSIVE reduceColCount(_, _, _)
reduceColCount(gameBoard, colIndex, k) ==
  IF k > Len(gameBoard) THEN 0
  ELSE Len(SelectSeq(gameBoard[k].cubes, LAMBDA cube : (gameBoard[k].x + cube.x) = colIndex))
         + reduceColCount(gameBoard, colIndex, k + 1)

\* variant: a column counts as full only above GRID_HEIGHT cubes
isColFullStrict(gameBoard, colIndex) ==
  LET colCount == reduceColCount(gameBoard, colIndex, 1)
  IN colCount > GRID_HEIGHT

isColFull(gameBoard, colIndex) ==
  LET colCount == reduceColCount(gameBoard, colIndex, 1)
  IN colCount >= GRID_HEIGHT

isGameEnd(s) == \E col \in 1..GRID_WIDTH : isColFull(s.gameBoard, col)

(***************************************************************************)
(* Board mutation.                                                         *)
(***************************************************************************)
getFullRows(s) ==
  SelectSeq([i \in 1..GRID_HEIGHT |-> i], LAMBDA newRowIndex : isRowFull(s.gameBoard, newRowIndex))

includes(seq, v) == \E i \in 1..Len(seq) : seq[i] = v

\* variant: a piece anchored in a cleared row is shifted as well
deleteRowShiftAnchored(s, fullRows) ==
  LET updatedGameBoard ==
        [k \in 1..Len(s.gameBoard) |->
           [s.gameBoard[k] EXCEPT !.cubes =
              SelectSeq(s.gameBoard[k].cubes,
                        LAMBDA cube : ~includes(fullRows, s.gameBoard[k].y + cube.y))]]
      movedTetrominos ==
        [k \in 1..Len(updatedGameBoard) |->
           [updatedGameBoard[k] EXCEPT !.y =
              updatedGameBoard[k].y
                + Len(SelectSeq(fullRows, LAMBDA rows : rows >= updatedGameBoard[k].y))]]
  IN [s EXCEPT !.gameBoard = movedTetrominos,
               !.score = s.score + (100 * Len(fullRows))]

deleteRow(s, fullRows) ==
  LET updatedGameBoard ==
        [k \in 1..Len(s.gameBoard) |->
           [s.gameBoard[k] EXCEPT !.cubes =
              SelectSeq(s.gameBoard[k].cubes,
                        LAMBDA cube : ~includes(fullRows, s.gameBoard[k].y + cube.y))]]
      movedTetrominos ==
        [k \in 1..Len(updatedGameBoard) |->
           [updatedGameBoard[k] EXCEPT !.y =
              updatedGameBoard[k].y
                + Len(SelectSeq(fullRows, LAMBDA rows : rows > updatedGameBoard[k].y))]]
  IN [s EXCEPT !.gameBoard = movedTetrominos,
               !.score = s.score + (100 * Len(fullRows))]

\* variant: only the floor locks a piece
setTetrominoFloorOnly(s, movement) ==
  IF isTouchingFloor(s.currentTetrominos) THEN TRUE ELSE FALSE

setTetromino(s, movement) ==
  IF isTouchingFloor(s.currentTetrominos) \/ isColliding(s, movement, FALSE)
  THEN TRUE ELSE FALSE

nextTetromino(s, randIndex) ==
  [s EXCEPT !.gameBoard = Append(s.gameBoard, s.currentTetrominos),
            !.currentTetrominos = createTetrominos(s.currentTetrominos.id, randIndex)]

(***************************************************************************)
(* Movement and rotation.                                                  *)
(***************************************************************************)
\* variant: the new row is taken from the old row
rotateCubeSlip(cube) == [x |-> -cube.y, y |-> cube.y]

rotateCube(cube) == [x |-> -cube.y, y |-> cube.x]

\* variant: the square is rotated like any other piece
rotateTetrominosAnyColor(s, rotation) ==
  LET rotatedTetrominosState ==
        [s EXCEPT !.currentTetrominos.cubes =
           [i \in 1..Len(s.currentTetrominos.cubes) |->
              rotateCube(s.currentTetrominos.cubes[i])]]
  IN IF /\ ~isColliding(rotatedTetrominosState, rotation, FALSE)
        /\ isInBorder(rotatedTetrominosState.currentTetrominos, rotation)
     THEN rotatedTetrominosState
     ELSE s

\* variant: the rotated form is not tested against the border
rotateTetrominosNoBorder(s, rotation) ==
  IF ~(s.currentTetrominos.color = "blue")
  THEN LET rotatedTetrominosState ==
             [s EXCEPT !.currentTetrominos.cubes =
                [i \in 1..Len(s.currentTetrominos.cubes) |->
                   rotateCube(s.currentTetrominos.cubes[i])]]
       IN IF ~isColliding(rotatedTetrominosState, rotation, FALSE)
          THEN rotatedTetrominosState
          ELSE s
  ELSE s

rotateTetrominos(s, rotation) ==
  IF ~(s.currentTetrominos.color = "blue")
  THEN LET rotatedTetrominosState ==
             [s EXCEPT !.currentTetrominos.cubes =
                [i \in 1..Len(s.currentTetrominos.cubes) |->
                   rotateCube(s.currentTetrominos.cubes[i])]]
       IN IF /\ ~isColliding(rotatedTetrominosState, rotation, FALSE)
             /\ isInBorder(rotatedTetrominosState.currentTetrominos, rotation)
          THEN rotatedTetrominosState
          ELSE s
  ELSE s

\* variant: the floor test of newY is inverted
moveTetrominosNoDescent(s, action) ==
  IF action.type = "Move"
  THEN IF ~isColliding(s, action, TRUE)
       THEN LET newY == IF isTouchingFloor(s.currentTetrominos) THEN action.y ELSE 0
                newX == IF isInBorder(s.currentTetrominos, action) THEN action.x ELSE 0
            IN [s EXCEPT !.currentTetrominos.x = s.currentTetrominos.x + newX,
                         !.currentTetrominos.y = s.currentTetrominos.y + newY]
       ELSE s
  ELSE rotateTetrominos(s, action)

moveTetrominos(s, action) ==
  IF action.type = "Move"
  THEN IF ~isColliding(s, action, TRUE)
       THEN LET newY == IF isTouchingFloor(s.currentTetrominos) THEN 0 ELSE action.y
                newX == IF isInBorder(s.currentTetrominos, action) THEN action.x ELSE 0
            IN [s EXCEPT !.currentTetrominos.x = s.currentTetrominos.x + newX,
                         !.currentTetrominos.y = s.currentTetrominos.y + newY]
       ELSE s
  ELSE rotateTetrominos(s, action)

(***************************************************************************)
(* The transition function.  init is the module-level initialState and     *)
(* randIndex the shape createTetrominos draws if this call locks a piece.  *)
(***************************************************************************)
\* variant: the discarded score is not compared
restartStateKeepsHighScore(s, init) == [init EXCEPT !.highScore = s.highScore]

\* variant: the discarded score always becomes the high score
restartStateTakesScore(s, init) == [init EXCEPT !.highScore = s.score]

\* the Restart branch: { ...initialState, highScore: ... }
restartState(s, init) ==
  [init EXCEPT !.highScore = IF s.score > s.highScore THEN s.score ELSE s.highScore]

\* variant: the flag is left as it is
gameEndStateUnset(s) == s

gameEndState(s) == [s EXCEPT !.gameEnd = TRUE]

\* variant: the full rows are computed on the updated state
updateStateEager(s, action, init, randIndex) ==
  IF action.type = "Restart"
  THEN restartState(s, init)
  ELSE IF isGameEnd(s)
       THEN gameEndState(s)
       ELSE LET updatedState == IF setTetromino(s, action)
                                THEN nextTetromino(s, randIndex)
                                ELSE moveTetrominos(s, action)
                fullRows == getFullRows(updatedState)
            IN IF Len(fullRows) > 0
               THEN deleteRow(updatedState, fullRows)
               ELSE updatedState

updateState(s, action, init, randIndex) ==
  IF action.type = "Restart"
  THEN restartState(s, init)
  ELSE IF isGameEnd(s)
       THEN gameEndState(s)
       ELSE LET updatedState == IF setTetromino(s, action)
                                THEN nextTetromino(s, randIndex)
                                ELSE moveTetrominos(s, action)
                fullRows == getFullRows(s)
            IN IF Len(fullRows) > 0
               THEN deleteRow(updatedState, fullRows)
               ELSE updatedState

(***************************************************************************)
(* State.  The five fields of State, the initialState constant of the run, *)
(* and the environment: the inputs still to be delivered from a scripted   *)
(* prefix, the number of free inputs delivered after it, and the last      *)
(* action delivered.                                                       *)
(***************************************************************************)
VARIABLES gameEnd, gameBoard, currentTetrominos, score, highScore,
          initialState, pending, delivered, lastAction

vars == <<gameEnd, gameBoard, currentTetrominos, score, highScore,
          initialState, pending, delivered, lastAction>>

state == [gameEnd |-> gameEnd, gameBoard |-> gameBoard,
          currentTetrominos |-> currentTetrominos,
          score |-> score, highScore |-> highScore]

(***************************************************************************)
(* Input scripts: each element is the source of an action together with    *)
(* the shape drawn if that action locks a piece.                           *)
(***************************************************************************)
In(src, r) == [src |-> src, r |-> r]
Rep(e, n) == [i \in 1..n |-> e]

GREEN == 1
BLUE == 5
YELLOW == 6

\* keys pre (drawn shape irrelevant), then n timer ticks; the last tick locks and draws next
Place(pre, n, next) ==
  [i \in 1..Len(pre) |-> In(pre[i], next)] \o Rep(In("Tick", next), n)

\* five upright bars stacked in the spawn column
ScriptColumn ==
  Place(<<"Rotate">>, 18, YELLOW) \o Place(<<"Rotate">>, 14, YELLOW)
    \o Place(<<"Rotate">>, 10, YELLOW) \o Place(<<"Rotate">>, 6, YELLOW)
    \o Place(<<"Rotate">>, 2, GREEN)

\* a bar in columns 1..4, two squares stacked in columns 9..10, a bar in columns 5..8
ScriptRow ==
  Place(Rep("Left", 4), 21, BLUE) \o Place(Rep("Right", 4), 21, BLUE)
    \o Place(Rep("Right", 4), 19, YELLOW) \o Place(<< >>, 21, GREEN)

\* a tower of bars in columns 7..10 up to row 1, then row 20 completed on its left
ScriptTower ==
  Place(Rep("Right", 2), 21, YELLOW)
    \o Place(<<"Rotate">> \o Rep("Right", 4), 17, YELLOW)
    \o Place(Rep("Right", 2), 16, YELLOW)
    \o Place(<<"Rotate">> \o Rep("Right", 3), 12, YELLOW)
    \o Place(Rep("Right", 2), 11, YELLOW)
    \o Place(<<"Rotate">> \o Rep("Right", 4), 7, YELLOW)
    \o Place(Rep("Right", 2), 6, YELLOW)
    \o Place(Rep("Left", 4), 21, YELLOW)
    \o Place(<<"Rotate">> \o Rep("Right", 3), 2, BLUE)
    \o Place(<< >>, 21, YELLOW)

\* squares in columns 1..8 of rows 19..20, a square on top of the first, and a
\* last square in columns 9..10 that completes rows 19 and 20 together
ScriptTwoRows ==
  Place(Rep("Left", 4), 21, BLUE) \o Place(Rep("Left", 2), 21, BLUE)
    \o Place(<< >>, 21, BLUE) \o Place(Rep("Right", 2), 21, BLUE)
    \o Place(Rep("Left", 4), 19, BLUE) \o Place(Rep("Right", 4), 21, GREEN)

\* a square on the floor with an L on top whose arm overhangs columns 6..7 of
\* row 17, and an upright L brought beside the arm, to anchor (8, 16)
ScriptOverhang ==
  Place(<< >>, 21, GREEN) \o Place(<< >>, 19, GREEN)
    \o Place(<<"Rotate">> \o Rep("Right", 3), 16, GREEN)

\* an upright bar moved against the left wall
ScriptWall == Place(<<"Rotate">> \o Rep("Left", 4), 0, YELLOW)

\* a flat bar lowered to row 19 of the empty board
ScriptLow == Place(<< >>, 19, YELLOW)

\* four rotations of the first piece at the spawn position
ScriptSpin == Rep(In("Rotate", GREEN), 4)

Scenarios ==
  { [first |-> r, inputs |-> << >>] : r \in RandIndex }
    \cup { [first |-> GREEN, inputs |-> ScriptSpin],
           [first |-> YELLOW, inputs |-> ScriptColumn],
           [first |-> YELLOW, inputs |-> ScriptRow],
           [first |-> BLUE, inputs |-> ScriptTwoRows],
           [first |-> BLUE, inputs |-> ScriptOverhang],
           [first |-> YELLOW, inputs |-> ScriptWall],
           [first |-> YELLOW, inputs |-> ScriptLow] }

\* the same, and the long game that builds the tower
ScenariosWithTower == Scenarios \cup { [first |-> YELLOW, inputs |-> ScriptTower] }

(***************************************************************************)
(* Initial states and actions.                                             *)
(***************************************************************************)
InitWith(sc) ==
  /\ initialState = makeInitialState(sc.first)
  /\ gameEnd = initialState.gameEnd
  /\ gameBoard = initialState.gameBoard
  /\ currentTetrominos = initialState.currentTetrominos
  /\ score = initialState.score
  /\ highScore = initialState.highScore
  /\ pending = sc.inputs
  /\ delivered = 0
  /\ lastAction = "none"

Init == \E sc \in Scenarios : InitWith(sc)

\* Math.random is consulted only by a call that reaches createTetrominos
Draws(s, action) ==
  IF action.type # "Restart" /\ ~isGameEnd(s) /\ setTetromino(s, action)
  THEN RandIndex ELSE {1}

\* scan((s, action) => updateState(s, action), initialState): one input of
\* the merged stream is folded into the state
Deliver(src, action, bound) ==
  /\ IF pending # << >>
     THEN /\ Head(pending).src = src
          /\ pending' = Tail(pending)
          /\ delivered' = delivered
     ELSE /\ delivered < bound
          /\ pending' = pending
          /\ delivered' = delivered + 1
  /\ \E r \in (IF pending # << >> THEN {Head(pending).r} ELSE Draws(state, action)) :
       \E ns \in {updateState(state, action, initialState, r)} :
          /\ gameEnd' = ns.gameEnd
          /\ gameBoard' = ns.gameBoard
          /\ currentTetrominos' = ns.currentTetrominos
          /\ score' = ns.score
          /\ highScore' = ns.highScore
  /\ lastAction' = src
  /\ UNCHANGED initialState

Left(bound) == Deliver("Left", MoveAction(-1, 0), bound)
Right(bound) == Deliver("Right", MoveAction(1, 0), bound)
Down(bound) == Deliver("Down", MoveAction(0, 1), bound)
Rotate(bound) == Deliver("Rotate", RotateAction, bound)
RestartKey(bound) == Deliver("Restart", Restart, bound)
Tick(bound) == Deliver("Tick", MoveAction(0, 1), bound)

\* merge(right$, left$, down$, rotate$, restart$, tick$)
Next ==
  \/ Left(MaxFree) \/ Right(MaxFree) \/ Down(MaxFree)
  \/ Rotate(MaxFree) \/ RestartKey(MaxFree) \/ Tick(MaxFree)

Spec == Init /\ [][Next]_vars

(***************************************************************************)
(* The same stream after the long game that builds the tower.              *)
(***************************************************************************)
InitWithTower == \E sc \in ScenariosWithTower : InitWith(sc)

NextTower ==
  \/ Left(MaxFreeTower) \/ Right(MaxFreeTower) \/ Down(MaxFreeTower)
  \/ Rotate(MaxFreeTower) \/ RestartKey(MaxFreeTower) \/ Tick(MaxFreeTower)

SpecTower == InitWithTower /\ [][NextTower]_vars

(***************************************************************************)
(* The unattended game: only tick$ emits (main.ts 471-473).                *)
(***************************************************************************)
InitTick == \E r \in RandIndex : InitWith([first |-> r, inputs |-> << >>])

TimerTick == Tick(MaxTicks)

SpecTick == InitTick /\ [][TimerTick]_vars

\* one emission of tick$ folded into the state, not counted as a key
TimerStep(draws) ==
  /\ \E r \in draws :
       \E ns \in {updateState(state, MoveAction(0, 1), initialState, r)} :
          /\ gameEnd' = ns.gameEnd
          /\ gameBoard' = ns.gameBoard
          /\ currentTetrominos' = ns.currentTetrominos
          /\ score' = ns.score
          /\ highScore' = ns.highScore
  /\ lastAction' = "Tick"
  /\ UNCHANGED <<initialState, pending, delivered>>

(***************************************************************************)
(* The fall of one piece.  After the scripted prefix the piece it left is  *)
(* observed until it is locked: the timer keeps emitting (the interval of  *)
(* tick$ never completes, main.ts 471-473) while the movement keys are     *)
(* pressed at any moment, any number of times.  Here delivered is 0 while  *)
(* the observed piece falls and 1 once it has been locked.                 *)
(***************************************************************************)
FallScenarios ==
  { sc \in Scenarios : sc.inputs \in {<< >>, ScriptOverhang, ScriptRow, ScriptColumn} }

InitFall == \E sc \in FallScenarios : InitWith(sc)

FallStep(src, action) ==
  IF pending # << >>
  THEN Deliver(src, action, 0)
  ELSE /\ delivered = 0
       /\ \E r \in Draws(state, action) :
            \E ns \in {updateState(state, action, initialState, r)} :
               /\ gameEnd' = ns.gameEnd
               /\ gameBoard' = ns.gameBoard
               /\ currentTetrominos' = ns.currentTetrominos
               /\ score' = ns.score
               /\ highScore' = ns.highScore
               /\ delivered' = IF ns.currentTetrominos.id = currentTetrominos.id
                               THEN 0 ELSE 1
       /\ lastAction' = src
       /\ UNCHANGED <<initialState, pending>>

FallTick == FallStep("Tick", MoveAction(0, 1))

FallKey ==
  \/ FallStep("Left", MoveAction(-1, 0))
  \/ FallStep("Right", MoveAction(1, 0))
  \/ FallStep("Down", MoveAction(0, 1))
  \/ FallStep("Rotate", RotateAction)

NextFall == FallKey \/ FallTick

SpecFall == InitFall /\ [][NextFall]_vars /\ WF_vars(FallTick)

(***************************************************************************)
(* The unattended game played to its end: only tick$ emits, for ever.  The *)
(* first MaxDrawn spawns draw any shape of the catalog; the later spawns   *)
(* draw the shape of the piece that is locked.                             *)
(***************************************************************************)
ColorIndex(color) == CHOOSE i \in RandIndex : defaultTetrominos[i].color = color

UnattendedDraws ==
  IF currentTetrominos.id < 2 + MaxDrawn
  THEN Draws(state, MoveAction(0, 1))
  ELSE {ColorIndex(currentTetrominos.color)}

UnattendedTick == TimerStep(UnattendedDraws)

SpecUnattended == InitTick /\ [][UnattendedTick]_vars /\ WF_vars(UnattendedTick)

(***************************************************************************)
(* Vocabulary of the properties, stated on grid cells rather than through  *)
(* the engine's own predicates.                                            *)
(***************************************************************************)
MoveOrRotate == {"Left", "Right", "Down", "Rotate", "Tick"}

\* the positions <<piece, cube>> of all cubes locked on a board
LockedCubes(board) ==
  UNION { { <<k, j>> : j \in 1..Len(board[k].cubes) } : k \in 1..Len(board) }

CellOf(board, p) ==
  <<board[p[1]].x + board[p[1]].cubes[p[2]].x, board[p[1]].y + board[p[1]].cubes[p[2]].y>>

CellsOf(piece) ==
  { <<piece.x + piece.cubes[i].x, piece.y + piece.cubes[i].y>> : i \in 1..Len(piece.cubes) }

FullColumn(board) ==
  \E col \in 1..GRID_WIDTH :
    Cardinality({ p \in LockedCubes(board) : CellOf(board, p)[1] = col }) >= GRID_HEIGHT

FullRowSet(board) ==
  { row \in 1..GRID_HEIGHT :
      Cardinality({ p \in LockedCubes(board) : CellOf(board, p)[2] = row }) = GRID_WIDTH }

LowestRow(piece) ==
  CHOOSE m \in { c[2] : c \in CellsOf(piece) } : \A c \in CellsOf(piece) : c[2] <= m

\* the piece touches the floor or a locked cube lies one row under one of its cubes
LockCondition ==
  \/ LowestRow(currentTetrominos) >= GRID_HEIGHT
  \/ \E c \in CellsOf(currentTetrominos) :
       \E p \in LockedCubes(gameBoard) : CellOf(gameBoard, p) = <<c[1], c[2] + 1>>

MaxOf(a, b) == IF a > b THEN a ELSE b

\* the grid cells holding a locked cube
BoardCells(board) == { CellOf(board, p) : p \in LockedCubes(board) }

(***************************************************************************)
(* C1.  Restart from any state yields initialState (gameEnd false, empty   *)
(* board, the very same first piece, score 0) except that highScore is the *)
(* larger of the discarded score and highScore.                            *)
(***************************************************************************)
C1_RestartYieldsInitialState ==
  [][ lastAction' = "Restart" =>
        /\ gameEnd' = FALSE
        /\ gameBoard' = << >>
        /\ currentTetrominos' = initialState.currentTetrominos
        /\ currentTetrominos'.id = 2
        /\ score' = 0
        /\ highScore' = MaxOf(score, highScore) ]_vars

\* a Restart has discarded a game with a positive score
C1_Witness ==
  /\ lastAction = "Restart" /\ delivered = 2
  /\ highScore = 100 /\ score = 0 /\ gameBoard = << >>

(***************************************************************************)
(* C2.  GameOver is terminal for every action but Restart: with a full     *)
(* column on the board every Move or Rotate sets gameEnd and changes       *)
(* nothing else, gameEnd stays true until a Restart, and gameEnd is true   *)
(* only in states whose board has a full column.                           *)
(***************************************************************************)
C2_GameOverTerminal ==
  /\ [](gameEnd => FullColumn(gameBoard))
  /\ [][ (lastAction' \in MoveOrRotate /\ FullColumn(gameBoard)) =>
           /\ gameEnd' = TRUE
           /\ UNCHANGED <<gameBoard, currentTetrominos, score, highScore>> ]_vars
  /\ [][ (gameEnd /\ lastAction' # "Restart") => gameEnd' ]_vars

\* a second Move or Rotate has been applied to a frozen state
C2_Witness ==
  /\ gameEnd /\ FullColumn(gameBoard)
  /\ delivered = 2 /\ lastAction \in MoveOrRotate

(***************************************************************************)
(* C3.  No two locked cubes on the board occupy the same grid coordinate.  *)
(***************************************************************************)
C3_NoTwoLockedCubesShareACell ==
  \A p, q \in LockedCubes(gameBoard) :
    CellOf(gameBoard, p) = CellOf(gameBoard, q) => p = q

(***************************************************************************)
(* C4.  highScore never decreases; only Restart changes it, and after a    *)
(* Restart it is at least the score of the discarded state.                *)
(***************************************************************************)
C4_HighScoreMonotone ==
  [][ /\ highScore' >= highScore
      /\ (lastAction' # "Restart" => highScore' = highScore)
      /\ (lastAction' = "Restart" => highScore' >= score) ]_vars

\* a Restart has been applied in a state whose score is below a positive highScore
C4_Witness ==
  /\ lastAction = "Restart" /\ delivered = 3
  /\ highScore = 100 /\ score = 0

(***************************************************************************)
(* C5.  Row clearing: a Move or Rotate applied to a board with k full rows *)
(* and no full column adds exactly 100*k to the score, removes every       *)
(* locked cube lying in a full row and raises the anchor row of every      *)
(* board piece by the number of full rows greater than its anchor row;     *)
(* with no full row the score is unchanged.                                *)
(***************************************************************************)
C5_RowClearing ==
  [][ (lastAction' \in MoveOrRotate /\ ~FullColumn(gameBoard)) =>
        LET R == FullRowSet(gameBoard)
        IN /\ score' = score + 100 * Cardinality(R)
           /\ Len(gameBoard') >= Len(gameBoard)
           /\ \A k \in 1..Len(gameBoard) :
                /\ gameBoard'[k].cubes =
                     SelectSeq(gameBoard[k].cubes,
                               LAMBDA cube : (gameBoard[k].y + cube.y) \notin R)
                /\ gameBoard'[k].y =
                     gameBoard[k].y + Cardinality({ r \in R : r > gameBoard[k].y }) ]_vars

\* two rows have been cleared by one action: the pieces lying in them lost all
\* their cubes and the piece anchored above them was shifted by two rows
C5_Witness ==
  /\ score = 200 /\ lastAction \in MoveOrRotate /\ delivered = 1
  /\ \E k \in 1..Len(gameBoard) : gameBoard[k].cubes = << >>
  /\ \E k \in 1..Len(gameBoard) : gameBoard[k].y = 20 /\ Len(gameBoard[k].cubes) = 4

(***************************************************************************)
(* C6.  Piece ids increase across spawns and are never reused: whenever    *)
(* the current piece is replaced, the new id is greater than the old one.  *)
(***************************************************************************)
C6_IdsIncreaseAcrossSpawns ==
  [][ currentTetrominos'.id # currentTetrominos.id =>
        currentTetrominos'.id > currentTetrominos.id ]_vars

(***************************************************************************)
(* C7.  The current piece always has exactly 4 cubes, a catalog shape      *)
(* possibly rotated, so lowestYCube never reduces an empty cube list, even *)
(* after row clears have emptied pieces on the board.                      *)
(***************************************************************************)
Turn(cubes) == [i \in 1..Len(cubes) |-> [x |-> -cubes[i].y, y |-> cubes[i].x]]

CatalogForms(color) ==
  UNION { { defaultTetrominos[r].cubes,
            Turn(defaultTetrominos[r].cubes),
            Turn(Turn(defaultTetrominos[r].cubes)),
            Turn(Turn(Turn(defaultTetrominos[r].cubes))) } :
          r \in { q \in RandIndex : defaultTetrominos[q].color = color } }

C7_CurrentPieceWellFormed ==
  /\ Len(currentTetrominos.cubes) = 4
  /\ currentTetrominos.cubes \in CatalogForms(currentTetrominos.color)

\* a rotated current piece next to a board holding a piece emptied by a row clear
C7_Witness ==
  /\ lastAction = "Rotate" /\ score = 100
  /\ \E k \in 1..Len(gameBoard) : gameBoard[k].cubes = << >>
  /\ currentTetrominos.cubes # defaultTetrominos[GREEN].cubes
  /\ currentTetrominos.color = "green"

(***************************************************************************)
(* C8.  Floor lock timing on an empty board, timer ticks only: each tick   *)
(* applied while the lowest cube is above row 20 raises the anchor row by  *)
(* exactly 1 without locking (anchor row 19 after 19 ticks, 20 after 20);  *)
(* the first tick applied with the lowest cube at row 20 or below locks    *)
(* the piece and spawns a piece with the next id.                          *)
(***************************************************************************)
C8_FloorLockTiming ==
  /\ [](delivered <= 20 =>
          /\ gameBoard = << >>
          /\ currentTetrominos = [initialState.currentTetrominos EXCEPT !.y = delivered])
  /\ [](delivered = 21 =>
          /\ gameBoard = << [initialState.currentTetrominos EXCEPT !.y = 20] >>
          /\ currentTetrominos.id = 3
          /\ currentTetrominos.y = 0)
  /\ [][ (lastAction' = "Tick" /\ gameBoard = << >>) =>
           IF LowestRow(currentTetrominos) < GRID_HEIGHT
           THEN /\ gameBoard' = << >>
                /\ currentTetrominos' = [currentTetrominos EXCEPT !.y = @ + 1]
           ELSE /\ gameBoard' = << currentTetrominos >>
                /\ currentTetrominos'.id = currentTetrominos.id + 1 ]_vars

\* the 21st tick has locked the first piece on the floor
C8_Witness ==
  /\ delivered = 21 /\ Len(gameBoard) = 1
  /\ gameBoard[1].y = 20 /\ currentTetrominos.id = 3

(***************************************************************************)
(* C9.  Rotation is cyclic of order 4: the cube map applied four times to  *)
(* a catalog piece gives back its cubes, four accepted rotations of a      *)
(* non-square piece restore the current piece with its anchor, and a       *)
(* rotation of the square piece leaves its cubes and anchor unchanged.     *)
(***************************************************************************)
Rotated(s) == rotateTetrominos(s, RotateAction)

FourTurns(cubes) ==
  [i \in 1..Len(cubes) |-> rotateCube(rotateCube(rotateCube(rotateCube(cubes[i]))))]

C9_RotationCyclic ==
  /\ [](\A r \in RandIndex :
          FourTurns(defaultTetrominos[r].cubes) = defaultTetrominos[r].cubes)
  /\ [](currentTetrominos.color # "blue" =>
          \E s1 \in {Rotated(state)} : \E s2 \in {Rotated(s1)} :
          \E s3 \in {Rotated(s2)} : \E s4 \in {Rotated(s3)} :
            (s1 # state /\ s2 # s1 /\ s3 # s2 /\ s4 # s3) => s4 = state)
  /\ [](currentTetrominos.color = "blue" => Rotated(state) = state)
  /\ [][ (lastAction' = "Rotate" /\ currentTetrominos'.id = currentTetrominos.id) =>
           /\ currentTetrominos'.x = currentTetrominos.x
           /\ currentTetrominos'.y = currentTetrominos.y
           /\ currentTetrominos.color = "blue" => currentTetrominos' = currentTetrominos
           /\ currentTetrominos'.cubes \in
                {currentTetrominos.cubes, Turn(currentTetrominos.cubes)} ]_vars

\* four Rotate actions in a row have brought the first piece back to its spawn form
C9_Witness ==
  /\ lastAction = "Rotate" /\ pending = << >> /\ delivered = 0
  /\ currentTetrominos.color = "green"
  /\ currentTetrominos = initialState.currentTetrominos

(***************************************************************************)
(* C10.  Lock takes priority over the requested action: while playing with *)
(* no full column, a Move or Rotate applied to a piece that touches the    *)
(* floor or stands on a locked cube appends that piece to the board and    *)
(* spawns the piece with the next id at the spawn position; otherwise the  *)
(* action appends nothing.                                                 *)
(***************************************************************************)
\* as claimed: the appended piece and the earlier entries are always unchanged
C10_LockAppendsPieceUnchanged ==
  [][ (lastAction' \in MoveOrRotate /\ ~gameEnd /\ ~FullColumn(gameBoard)) =>
        IF LockCondition
        THEN /\ gameBoard' = Append(gameBoard, currentTetrominos)
             /\ currentTetrominos'.id = currentTetrominos.id + 1
             /\ currentTetrominos'.x = X_SPAWN_POINT
             /\ currentTetrominos'.y = 0
        ELSE Len(gameBoard') = Len(gameBoard) ]_vars

\* as amended: unchanged when the board has no full row; otherwise the
\* appended board keeps its order, ids, colors and columns
C10_LockAppendsPiece ==
  [][ (lastAction' \in MoveOrRotate /\ ~gameEnd /\ ~FullColumn(gameBoard)) =>
        IF LockCondition
        THEN /\ Len(gameBoard') = Len(gameBoard) + 1
             /\ \A k \in 1..Len(gameBoard') :
                  LET old == Append(gameBoard, currentTetrominos)[k]
                  IN /\ gameBoard'[k].id = old.id
                     /\ gameBoard'[k].color = old.color
                     /\ gameBoard'[k].x = old.x
             /\ (FullRowSet(gameBoard) = {} =>
                   gameBoard' = Append(gameBoard, currentTetrominos))
             /\ currentTetrominos'.id = currentTetrominos.id + 1
             /\ currentTetrominos'.x = X_SPAWN_POINT
             /\ currentTetrominos'.y = 0
        ELSE Len(gameBoard') = Len(gameBoard) ]_vars

\* a piece standing on the tower was locked by a key or tick while row 20 was full
C10_Witness ==
  /\ delivered = 1 /\ lastAction \in MoveOrRotate /\ score = 100
  /\ Len(gameBoard) = 11
  /\ gameBoard[11].id = 12 /\ gameBoard[11].y = 1
  /\ currentTetrominos.id = 13

C12_GravityPerCell ==
  [][ (lastAction' \in MoveOrRotate /\ ~FullColumn(gameBoard)
         /\ FullRowSet(gameBoard) # {}) =>
        LET R == FullRowSet(gameBoard)
        IN \A k \in 1..Len(gameBoard) :
             CellsOf(gameBoard'[k]) =
               { <<c[1], c[2] + Cardinality({ r \in R : r > c[2] })>> :
                   c \in { d \in CellsOf(gameBoard[k]) : d[2] \notin R } } ]_vars

(***************************************************************************)
(* C13.  Rotate replaces the current piece by its rotated form only if no  *)
(* cube of the rotated form coincides with a locked cube; so right after   *)
(* a Rotate that turned the piece it shares no grid cell with the board.   *)
(***************************************************************************)
C13_RotateNeverOverlaps ==
  [][ (lastAction' = "Rotate"
         /\ currentTetrominos'.id = currentTetrominos.id
         /\ currentTetrominos'.cubes # currentTetrominos.cubes) =>
        CellsOf(currentTetrominos') \cap BoardCells(gameBoard) = {} ]_vars

\* the displacement requested by a movement key or by the timer
Dx(src) == IF src = "Left" THEN -1 ELSE IF src = "Right" THEN 1 ELSE 0
Dy(src) == IF src \in {"Down", "Tick"} THEN 1 ELSE 0

\* no cube of the piece would leave the columns 1..GRID_WIDTH by moving dx
WallAllows(piece, dx) ==
  \A c \in CellsOf(piece) :
    \/ c[1] \in 2..(GRID_WIDTH - 1)
    \/ (c[1] = 1 /\ dx = 1)
    \/ (c[1] = GRID_WIDTH /\ dx = -1)

MovedPiece(src) ==
  IF \E c \in CellsOf(currentTetrominos) :
       <<c[1] + Dx(src), c[2] + Dy(src)>> \in BoardCells(gameBoard)
  THEN currentTetrominos
  ELSE [currentTetrominos EXCEPT
          !.x = @ + (IF WallAllows(currentTetrominos, Dx(src)) THEN Dx(src) ELSE 0),
          !.y = @ + Dy(src)]

(***************************************************************************)
(* C14.  A Move(dx, dy) that does not lock: if a cube of the current piece *)
(* displaced by (dx, dy) coincides with a locked cube the piece is         *)
(* unchanged; otherwise the anchor becomes (x + dx', y + dy) with dx' = dx *)
(* when the border predicate holds and 0 otherwise; the cubes never        *)
(* change.                                                                 *)
(***************************************************************************)
\* as claimed: for every Move that does not lock
C14_MoveAnyState ==
  [][ (lastAction' \in {"Left", "Right", "Down", "Tick"}
         /\ currentTetrominos'.id = currentTetrominos.id) =>
        currentTetrominos' = MovedPiece(lastAction') ]_vars

\* as amended: for every Move that does not lock while no column is full
C14_Move ==
  [][ (lastAction' \in {"Left", "Right", "Down", "Tick"}
         /\ ~FullColumn(gameBoard)
         /\ currentTetrominos'.id = currentTetrominos.id) =>
        currentTetrominos' = MovedPiece(lastAction') ]_vars

\* the upright bar stands in column 1 and a further Left has been delivered
C14_Witness ==
  /\ pending = << >> /\ delivered = 1 /\ lastAction = "Left"
  /\ gameBoard = << >>
  /\ currentTetrominos.color = "yellow"
  /\ CellsOf(currentTetrominos) = { <<1, 0>>, <<1, 1>>, <<1, 2>>, <<1, 3>> }

(***************************************************************************)
(* C15.  Side walls are never crossed: every cube of the current piece and *)
(* of the board has its absolute column in 1..GRID_WIDTH.                  *)
(***************************************************************************)
C15_SideWalls ==
  \A c \in CellsOf(currentTetrominos) \cup BoardCells(gameBoard) :
    c[1] \in 1..GRID_WIDTH

\* the upright bar stands in column 1 and a Rotate, which would turn it
\* over the wall, has been delivered
C15_Witness ==
  /\ pending = << >> /\ delivered = 1 /\ lastAction = "Rotate"
  /\ gameBoard = << >>
  /\ currentTetrominos.color = "yellow"
  /\ CellsOf(currentTetrominos) = { <<1, 0>>, <<1, 1>>, <<1, 2>>, <<1, 3>> }

(***************************************************************************)
(* C16.  Nothing sinks past the floor: no cube of the current piece or of  *)
(* the board has an absolute row greater than GRID_HEIGHT.                 *)
(***************************************************************************)
C16_NothingBelowFloor ==
  \A c \in CellsOf(currentTetrominos) \cup BoardCells(gameBoard) :
    c[2] <= GRID_HEIGHT

(***************************************************************************)
(* C17.  Down-tick progress: in a Playing state with no full column a      *)
(* Move(0, 1) either locks the current piece (the new current piece has    *)
(* id + 1) or raises its anchor row by exactly 1 with the column           *)
(* unchanged; hence, while the timer keeps emitting, every current piece   *)
(* is locked after finitely many ticks, whatever keys are interleaved.     *)
(***************************************************************************)
C17_DownTickProgress ==
  /\ [][ (lastAction' \in {"Down", "Tick"} /\ ~gameEnd /\ ~FullColumn(gameBoard)) =>
           IF LockCondition
           THEN currentTetrominos'.id = currentTetrominos.id + 1
           ELSE /\ currentTetrominos'.id = currentTetrominos.id
                /\ currentTetrominos'.y = currentTetrominos.y + 1
                /\ currentTetrominos'.x = currentTetrominos.x ]_vars
  /\ (pending = << >> /\ delivered = 0 /\ ~FullColumn(gameBoard)) ~> (delivered = 1)

\* a piece that was moved or turned by keys on its way has been locked by a tick
C17_Witness ==
  /\ lastAction = "Tick" /\ delivered = 1
  /\ Len(gameBoard) = 1
  /\ currentTetrominos.id = 3
  /\ gameBoard[1].x = 1
  /\ gameBoard[1].cubes \notin { defaultTetrominos[i].cubes : i \in RandIndex }

(***************************************************************************)
(* C18.  An unattended game ends: from initialState with only timer ticks  *)
(* Move(0, 1) the run eventually reaches gameEnd = TRUE, and no row is     *)
(* ever cleared on the way.                                                *)
(***************************************************************************)
C18_UnattendedGameEnds ==
  /\ <>gameEnd
  /\ [](score = 0 /\ FullRowSet(gameBoard) = {}
          /\ \A k \in 1..Len(gameBoard) : Len(gameBoard[k].cubes) = 4)

\* the pile of pieces has filled a column and a tick has ended the game
C18_Witness ==
  /\ gameEnd /\ lastAction = "Tick" /\ delivered = 0
  /\ FullColumn(gameBoard)
  /\ score = 0

(***************************************************************************)
(* C19.  Id consistency inside one state: the ids of the board pieces are  *)
(* strictly increasing in board order (hence pairwise distinct) and all    *)
(* smaller than the id of the current piece; a Move or Rotate, row         *)
(* clearing included, never changes the id, color, column or position in   *)
(* the sequence of a board piece and never removes a piece from the board. *)
(***************************************************************************)
C19_IdConsistency ==
  /\ [](/\ \A k \in 1..Len(gameBoard) : \A l \in 1..Len(gameBoard) :
             k < l => gameBoard[k].id < gameBoard[l].id
        /\ \A k \in 1..Len(gameBoard) : gameBoard[k].id < currentTetrominos.id)
  /\ [][ lastAction' \in MoveOrRotate =>
           /\ Len(gameBoard') >= Len(gameBoard)
           /\ \A k \in 1..Len(gameBoard) :
                /\ gameBoard'[k].id = gameBoard[k].id
                /\ gameBoard'[k].color = gameBoard[k].color
                /\ gameBoard'[k].x = gameBoard[k].x ]_vars

\* row 20 has been cleared: the two bars that lay in it are still on the
\* board, without cubes, between the pieces locked before and after them
C19_Witness ==
  /\ score = 100 /\ lastAction \in MoveOrRotate
  /\ Len(gameBoard) = 4
  /\ gameBoard[1].cubes = << >> /\ gameBoard[4].cubes = << >>
  /\ Len(gameBoard[2].cubes) = 2
  /\ currentTetrominos.id = 6

(***************************************************************************)
(* C20.  Frame of a plain move or rotation: a Move or Rotate applied in a  *)
(* state with no full column and no full row, whose current piece neither  *)
(* touches the floor nor stands directly above a locked cube, leaves the   *)
(* board, score, highScore and gameEnd unchanged; the current piece keeps  *)
(* its id and color, a Move keeps its cubes and a Rotate its anchor.       *)
(***************************************************************************)
C20_PlainMoveFrame ==
  [][ (lastAction' \in MoveOrRotate /\ ~FullColumn(gameBoard)
         /\ FullRowSet(gameBoard) = {} /\ ~LockCondition) =>
        /\ gameBoard' = gameBoard
        /\ score' = score
        /\ highScore' = highScore
        /\ gameEnd' = gameEnd
        /\ currentTetrominos'.id = currentTetrominos.id
        /\ currentTetrominos'.color = currentTetrominos.color
        /\ (lastAction' # "Rotate" =>
              currentTetrominos'.cubes = currentTetrominos.cubes)
        /\ (lastAction' = "Rotate" =>
              /\ currentTetrominos'.x = currentTetrominos.x
              /\ currentTetrominos'.y = currentTetrominos.y) ]_vars

\* the flat bar one row above the floor of the empty board has been moved
\* aside by a key
C20_Witness ==
  /\ pending = << >> /\ delivered = 1 /\ lastAction \in {"Left", "Right"}
  /\ gameBoard = << >> /\ score = 0
  /\ currentTetrominos.color = "yellow"
  /\ currentTetrominos.y = GRID_HEIGHT - 1
  /\ currentTetrominos.x # X_SPAWN_POINT

====
